---- MODULE Spec2Model ----
(***************************************************************************)
(* Model of calmdocs/dblocker: a Store that maps each id to a Group, one   *)
(* startGroup goroutine per Group arbitrating "rw", "rwseparate" and       *)
(* "read" requests over unbuffered channels, and waitGetDB, the body of    *)
(* every public accessor.                                                  *)
(*                                                                         *)
(* Every call of a public accessor is one process of the model (a member   *)
(* of Calls, numbered in the order the calls are issued); a goroutine that *)
(* makes several calls in sequence is several members of Calls.  A send    *)
(* and the matching receive on an unbuffered channel are one joint action. *)
(* A Go select with several ready cases is a nondeterministic choice       *)
(* between them.  A step that ends waitGetDB runs up to the accessor's     *)
(* return, the deferred requestCount-- included, and so waits for the      *)
(* Store mutex.  Spec issues every call once; StreamSpec is the Store      *)
(* with a live root scope and a connector that succeeds, under callers     *)
(* that release and call again.                                            *)
(***************************************************************************)
EXTENDS Integers, FiniteSets

\* Number of accessor calls issued during a run.
NumCalls == 2

Calls == 1..NumCalls

\* The call processes: those of Calls and one more, which only the
\* specification of a stream of calls (StreamSpec) uses.
Slots == 1..(NumCalls + 1)

\* Failed connector attempts inside one connectDBAndWait.
MaxFails == 2

Keys == {"u1"}

Modes == {"rw", "rwseparate", "read"}

Exclusive == {"rw", "rwseparate"}

VARIABLES
    m,           \* Store.m: id -> Group (id = 0: no entry)
    mu,          \* Store.Mutex: "free", or the id whose startGroup holds it
    rootDone,    \* s.Ctx is done
    task,        \* per id: the startGroup goroutine (pc, isRW, readCount)
    pc,          \* per call: position inside waitGetDB
    mode,        \* per call: accessType
    key,         \* per call: id
    grp,         \* per call: the Group g it looked up
    ctx,         \* per call: state of the internal ctx
    db,          \* per call: the handle it was given (0 = nil)
    watcher,     \* per call: the goroutine startGroup spawned on admission
    outcome,     \* per call: what the public accessor returned
    cancelCalls, \* per call: how often the returned cancel() was invoked
    closedDB     \* handles on which Close() was called

vars == <<m, mu, rootDone, task, pc, mode, key, grp, ctx, db, watcher,
          outcome, cancelCalls, closedDB>>

\* A Group is named by the call that created it.
NoGroup == [id |-> 0, requestCount |-> 0, DB |-> 0]

\* The locals of a startGroup goroutine: isRW and readCount and, while it
\* is inside connectDBAndWait, the failed attempts so far (fails), the full
\* idle intervals waited so far (waits), whether idleDelay.C holds a tick
\* that was not received (stale) and whether idleDelay is running (armed).
NoTask == [pc |-> "none", isRW |-> FALSE, readCount |-> 0,
           fails |-> 0, waits |-> 0, stale |-> FALSE, armed |-> FALSE]

\* A connector that hands every Group the handle it made first.
ReusedDB(g) == 1

\* The handle the connector returns for Group g.
SharedDB(g) == g

\* The handle the connector returns to rwseparate call c.
PrivateDB(c) == NumCalls + 1 + c

\* ctx.Done() is closed.  Until the first cancel() the model keeps how the
\* scope ended: before the call was issued ("pre"), or by a deadline or the
\* caller's scope after the call had returned ("expired").
CtxDone(c) == ctx[c] # "live"

\* An error path that returns without cancel().
NotCancelled(c) == ctx

\* cancel() on the internal ctx.
Cancelled(c) == [ctx EXCEPT ![c] = "ended"]

Init ==
    /\ m = [k \in Keys |-> NoGroup]
    /\ mu = "free"
    /\ rootDone = FALSE
    /\ task = [k \in Keys |-> NoTask]
    /\ pc = [c \in Slots |-> "new"]
    /\ mode = [c \in Slots |-> "rw"]
    /\ key = [c \in Slots |-> CHOOSE k \in Keys : TRUE]
    /\ grp = [c \in Slots |-> 0]
    /\ ctx = [c \in Slots |-> "live"]
    /\ db = [c \in Slots |-> 0]
    /\ watcher = [c \in Slots |-> "none"]
    /\ outcome = [c \in Slots |-> "none"]
    /\ cancelCalls = [c \in Slots |-> "never"]
    /\ closedDB = {}

----------------------------------------------------------------------------
(* waitGetDB and the public accessors *)

\* A lookup that counts only the call that creates the Group.
LookupCountsCreatorOnly(k, c) ==
    IF m[k].id = 0
    THEN [id |-> c, requestCount |-> 1, DB |-> 0]
    ELSE m[k]

\* The Group a call finds or creates under the Store mutex, requestCount++.
LookupOrCreate(k, c) ==
    IF m[k].id = 0
    THEN [id |-> c, requestCount |-> 1, DB |-> 0]
    ELSE [m[k] EXCEPT !.requestCount = @ + 1]

\* Create ctx, Lock, look the Group up or create it and start its
\* goroutine, requestCount++, Unlock.  pre: the caller's scope had already
\* ended when the call was issued.
Issue(c, k, md, pre) ==
    /\ pc[c] = "new"
    /\ \A d \in Slots : d < c => pc[d] # "new"
    /\ mu = "free"
    /\ key' = [key EXCEPT ![c] = k]
    /\ mode' = [mode EXCEPT ![c] = md]
    /\ ctx' = [ctx EXCEPT ![c] = IF pre THEN "pre" ELSE "live"]
    /\ m' = [m EXCEPT ![k] = LookupOrCreate(k, c)]
    /\ grp' = [grp EXCEPT ![c] = m'[k].id]
    /\ task' = IF m[k].id = 0
               THEN [task EXCEPT ![k] = [NoTask EXCEPT !.pc = "start"]]
               ELSE task
    /\ pc' = [pc EXCEPT ![c] = "send"]
    /\ UNCHANGED <<mu, rootDone, db, watcher, outcome, cancelCalls, closedDB>>

\* A call of any accessor, for any id, with a live or an ended scope.
Start(c) == \E k \in Keys, md \in Modes, pre \in BOOLEAN : Issue(c, k, md, pre)

\* The internal scope ends: the unlockTimeout or the caller's deadline
\* elapses, or the caller's scope is cancelled.
CtxEnd(c) ==
    /\ pc[c] # "new"
    /\ ctx[c] = "live"
    /\ ctx' = [ctx EXCEPT ![c] = IF pc[c] = "done" THEN "expired" ELSE "ended"]
    /\ UNCHANGED <<m, mu, rootDone, task, pc, mode, key, grp, db, watcher,
                   outcome, cancelCalls, closedDB>>

\* The goroutine waitGetDB starts: cancel() once s.Ctx is done.
ScopeWatcher(c) ==
    /\ pc[c] # "new"
    /\ rootDone
    /\ ctx[c] = "live"
    /\ ctx' = Cancelled(c)
    /\ UNCHANGED <<m, mu, rootDone, task, pc, mode, key, grp, db, watcher,
                   outcome, cancelCalls, closedDB>>

\* What a public accessor returns from what waitGetDB returned.  The x
\* accessors (RWGetDBx, RWGetDBxWithTimeout, ReadGetDBx) pass the result on;
\* the others evaluate sqlxDB.DB, a nil pointer dereference when sqlxDB is nil.
Accessor(x, res, d) == IF ~x /\ d = 0 THEN "panic" ELSE res

\* A return path on which the deferred function does not run.
NotDecremented(g) == g

\* The deferred s.m[id].requestCount--.
Decremented(g) == [g EXCEPT !.requestCount = @ - 1]

\* waitGetDB returns res with handle d: the deferred
\* s.m[id].requestCount-- under the Store mutex (a nil pointer dereference
\* when the id has no entry), then the return of the accessor that made
\* the call.
Returns(c, res, d) ==
    /\ mu = "free"
    /\ m' = IF m[key[c]].id = 0
            THEN m
            ELSE [m EXCEPT ![key[c]] = Decremented(@)]
    /\ \E x \in BOOLEAN :
        outcome' = [outcome EXCEPT ![c] =
            IF m[key[c]].id = 0 THEN "panic" ELSE Accessor(x, res, d)]
    /\ db' = [db EXCEPT ![c] = d]
    /\ pc' = [pc EXCEPT ![c] = "done"]

\* The channels of the Group the call holds are the ones the goroutine of
\* id k serves.
SameGroup(k, c) == key[c] = k /\ m[k].id # 0 /\ grp[c] = m[k].id

\* The goroutine of id k is blocked in one of its selects.
Selecting(k) == task[k].pc = "select"

\* After the request was received: rwseparate connects, the rest wait on dbCh.
AfterSend(c) == IF mode[c] = "rwseparate" THEN "connect" ELSE "recv"

\* The unused state (the default case of the switch): neither isRW nor
\* readCount > 0.
Unused(t) == ~t.isRW /\ t.readCount = 0

\* A select that also receives from g.rwRequestCh in the reading state.
TakesRWWhileReading(t) == ~t.isRW

\* The states whose select receives from g.rwRequestCh.
TakesRW(t) == Unused(t)

\* A select that receives from g.readRequestCh in the unused state only.
TakesReadWhenUnused(t) == Unused(t)

\* The states whose select receives from g.readRequestCh.
TakesRead(t) == ~t.isRW

\* g.rwRequestCh <- Request{ctx} meets r := <-g.rwRequestCh.
AdmitRW(k, c) ==
    /\ pc[c] = "send"
    /\ mode[c] \in Exclusive
    /\ SameGroup(k, c)
    /\ Selecting(k)
    /\ TakesRW(task[k])
    /\ task' = [task EXCEPT ![k].isRW = TRUE]
    /\ watcher' = [watcher EXCEPT ![c] = "wait"]
    /\ pc' = [pc EXCEPT ![c] = AfterSend(c)]
    /\ UNCHANGED <<m, mu, rootDone, mode, key, grp, ctx, db, outcome,
                   cancelCalls, closedDB>>

\* g.readRequestCh <- Request{ctx} meets r := <-g.readRequestCh.
AdmitRead(k, c) ==
    /\ pc[c] = "send"
    /\ mode[c] = "read"
    /\ SameGroup(k, c)
    /\ Selecting(k)
    /\ TakesRead(task[k])
    /\ task' = [task EXCEPT ![k].readCount = @ + 1]
    /\ watcher' = [watcher EXCEPT ![c] = "wait"]
    /\ pc' = [pc EXCEPT ![c] = AfterSend(c)]
    /\ UNCHANGED <<m, mu, rootDone, mode, key, grp, ctx, db, outcome,
                   cancelCalls, closedDB>>

\* The send select takes <-s.Ctx.Done() or <-ctx.Done(): cancel(), return
\* the error.
SendCancelled(c) ==
    /\ pc[c] = "send"
    /\ rootDone \/ CtxDone(c)
    /\ ctx' = Cancelled(c)
    /\ Returns(c, "err", 0)
    /\ UNCHANGED <<mu, rootDone, task, mode, key, grp, watcher, cancelCalls,
                   closedDB>>

\* db = <-g.dbCh meets g.dbCh <- g.DB, which the select of every state of
\* the goroutine offers; return cancel and db.
OfferDB(k, c) ==
    /\ pc[c] = "recv"
    /\ SameGroup(k, c)
    /\ Selecting(k)
    /\ Returns(c, "ok", m[k].DB)
    /\ UNCHANGED <<mu, rootDone, task, mode, key, grp, ctx, watcher,
                   cancelCalls, closedDB>>

\* The dbCh select takes <-s.Ctx.Done() or <-ctx.Done(): cancel(), return
\* the error.
RecvCancelled(c) ==
    /\ pc[c] = "recv"
    /\ rootDone \/ CtxDone(c)
    /\ ctx' = Cancelled(c)
    /\ Returns(c, "err", 0)
    /\ UNCHANGED <<mu, rootDone, task, mode, key, grp, watcher, cancelCalls,
                   closedDB>>

\* rwseparate: s.connectDBFunc returns a new handle; return cancel and db.
PrivateConnectOK(c) ==
    /\ pc[c] = "connect"
    /\ Returns(c, "ok", PrivateDB(c))
    /\ UNCHANGED <<mu, rootDone, task, mode, key, grp, ctx, watcher,
                   cancelCalls, closedDB>>

\* rwseparate: s.connectDBFunc fails: cancel(), return its error.
PrivateConnectFail(c) ==
    /\ pc[c] = "connect"
    /\ ctx' = Cancelled(c)
    /\ Returns(c, "err", 0)
    /\ UNCHANGED <<mu, rootDone, task, mode, key, grp, watcher, cancelCalls,
                   closedDB>>

\* The caller invokes the cancel function it was given, for the first
\* time or again.
Release(c) ==
    /\ pc[c] = "done"
    /\ outcome[c] = "ok"
    /\ cancelCalls' = [cancelCalls EXCEPT ![c] =
                           IF @ = "never" THEN "once" ELSE "again"]
    /\ ctx' = Cancelled(c)
    /\ UNCHANGED <<m, mu, rootDone, task, pc, mode, key, grp, db, watcher,
                   outcome, closedDB>>

----------------------------------------------------------------------------
(* The goroutines startGroup spawns on admission *)

\* A done signal after which the requestCount check runs whatever readCount.
AfterDoneChecks(t) == [t EXCEPT !.pc = "check"]

\* The goroutine of id k after a done signal: the rw loop always goes on to
\* the requestCount check, the reading state only when readCount reached 0.
AfterDone(t) == IF Unused(t) THEN [t EXCEPT !.pc = "check"] ELSE t

\* A watcher that goes back to waiting after its send.
WatcherRearmed == "wait"

\* The watcher after its send on the done channel: the goroutine ends.
WatcherAfterSend == "sent"

\* r.ctx is done; rwDoneCh <- true meets <-rwDoneCh (rw state).
DoneRW(k, c) ==
    /\ watcher[c] = "wait"
    /\ mode[c] \in Exclusive
    /\ CtxDone(c)
    /\ SameGroup(k, c)
    /\ Selecting(k)
    /\ task[k].isRW
    /\ task' = [task EXCEPT ![k] = AfterDone([@ EXCEPT !.isRW = FALSE])]
    /\ watcher' = [watcher EXCEPT ![c] = WatcherAfterSend]
    /\ UNCHANGED <<m, mu, rootDone, pc, mode, key, grp, ctx, db, outcome,
                   cancelCalls, closedDB>>

\* A done signal that leaves readCount as it was.
ReadDoneKeepsCount(t) == t

\* readCount-- on a done signal.
ReadDone(t) == [t EXCEPT !.readCount = @ - 1]

\* r.ctx is done; readDoneCh <- true meets <-readDoneCh (reading state).
DoneRead(k, c) ==
    /\ watcher[c] = "wait"
    /\ mode[c] = "read"
    /\ CtxDone(c)
    /\ SameGroup(k, c)
    /\ Selecting(k)
    /\ ~task[k].isRW
    /\ task[k].readCount > 0
    /\ task' = [task EXCEPT ![k] = AfterDone(ReadDone(@))]
    /\ watcher' = [watcher EXCEPT ![c] = WatcherAfterSend]
    /\ UNCHANGED <<m, mu, rootDone, pc, mode, key, grp, ctx, db, outcome,
                   cancelCalls, closedDB>>

\* Either select of the goroutine takes <-s.Ctx.Done(): return.
WatcherQuit(c) ==
    /\ watcher[c] = "wait"
    /\ rootDone
    /\ watcher' = [watcher EXCEPT ![c] = "quit"]
    /\ UNCHANGED <<m, mu, rootDone, task, pc, mode, key, grp, ctx, db,
                   outcome, cancelCalls, closedDB>>

----------------------------------------------------------------------------
(* startGroup and connectDBAndWait *)

\* connectDBAndWait returns: its locals are gone.
Connected(t) == [t EXCEPT !.pc = "select", !.fails = 0, !.waits = 0,
                          !.stale = FALSE, !.armed = FALSE]

\* s.Lock(); idleDelay is created and the first connectDBFunc attempt
\* succeeds: g.DB is set, s.Unlock(), enter the loop.
ConnectOK(k) ==
    /\ task[k].pc = "start"
    /\ mu = "free"
    /\ m' = [m EXCEPT ![k].DB = SharedDB(m[k].id)]
    /\ task' = [task EXCEPT ![k] = Connected(@)]
    /\ UNCHANGED <<mu, rootDone, pc, mode, key, grp, ctx, db, watcher,
                   outcome, cancelCalls, closedDB>>

\* idleDelay.Reset(idleDuration) of the Go version of go.mod (1.22): it
\* restarts the timer and leaves a tick that is already in idleDelay.C.
ResetKeeps(tick) == tick

\* s.Lock(); idleDelay is created and the first connectDBFunc attempt
\* fails: Reset and wait in the select with the mutex held.  late: the
\* attempt took idleDuration or longer, so that idleDelay had fired.
ConnectFail(k) ==
    /\ task[k].pc = "start"
    /\ mu = "free"
    /\ mu' = k
    /\ \E late \in BOOLEAN :
        task' = [task EXCEPT ![k].pc = "backoff", ![k].fails = 1,
                             ![k].stale = ResetKeeps(late),
                             ![k].armed = TRUE]
    /\ UNCHANGED <<m, rootDone, pc, mode, key, grp, ctx, db, watcher,
                   outcome, cancelCalls, closedDB>>

\* <-idleDelay.C after a full idleDuration: the next attempt starts.
IdleElapsed(k) ==
    /\ task[k].pc = "backoff"
    /\ ~task[k].stale
    /\ task' = [task EXCEPT ![k].pc = "attempt", ![k].waits = @ + 1,
                            ![k].armed = FALSE]
    /\ UNCHANGED <<m, mu, rootDone, pc, mode, key, grp, ctx, db, watcher,
                   outcome, cancelCalls, closedDB>>

\* <-idleDelay.C receives the tick that was already there: the next
\* attempt starts at once, idleDelay still running.
IdleStale(k) ==
    /\ task[k].pc = "backoff"
    /\ task[k].stale
    /\ task' = [task EXCEPT ![k].pc = "attempt", ![k].stale = FALSE]
    /\ UNCHANGED <<m, mu, rootDone, pc, mode, key, grp, ctx, db, watcher,
                   outcome, cancelCalls, closedDB>>

\* A later connectDBFunc attempt succeeds: g.DB is set, s.Unlock(), enter
\* the loop.
ConnectRetry(k) ==
    /\ task[k].pc = "attempt"
    /\ m' = [m EXCEPT ![k].DB = SharedDB(m[k].id)]
    /\ mu' = "free"
    /\ task' = [task EXCEPT ![k] = Connected(@)]
    /\ UNCHANGED <<rootDone, pc, mode, key, grp, ctx, db, watcher, outcome,
                   cancelCalls, closedDB>>

\* A later connectDBFunc attempt fails: Reset and wait again.  late: the
\* attempt outlasted a running idleDelay.
ConnectFailAgain(k) ==
    /\ task[k].pc = "attempt"
    /\ task[k].fails < MaxFails
    /\ \E late \in BOOLEAN :
        task' = [task EXCEPT ![k].pc = "backoff", ![k].fails = @ + 1,
                             ![k].stale = ResetKeeps(task[k].armed /\ late),
                             ![k].armed = TRUE]
    /\ UNCHANGED <<m, mu, rootDone, pc, mode, key, grp, ctx, db, watcher,
                   outcome, cancelCalls, closedDB>>

\* <-ctx.Done() during the wait: connectDBAndWait returns nil, g.DB stays
\* nil, s.Unlock(), enter the loop.
ConnectAbort(k) ==
    /\ task[k].pc = "backoff"
    /\ rootDone
    /\ mu' = "free"
    /\ task' = [task EXCEPT ![k] = Connected(@)]
    /\ UNCHANGED <<m, rootDone, pc, mode, key, grp, ctx, db, watcher,
                   outcome, cancelCalls, closedDB>>

\* A check that destroys the Group whatever its requestCount.
TeardownRegardless(g) == TRUE

\* Whether the goroutine, left without a holder, destroys Group g.
ShouldTeardown(g) == g.requestCount = 0

\* A teardown after which the goroutine goes on with its loop.
KeepsServing(t) == [t EXCEPT !.pc = "select"]

\* The goroutine after delete(s.m, id): s.Unlock() and return.
AfterTeardown(t) == NoTask

\* s.Lock(); if g.requestCount == 0: close the channels, g.DB.Close()
\* (a nil pointer dereference when g.DB is nil, the mutex still held),
\* delete(s.m, id), return; otherwise back to the loop.  s.Unlock().
TeardownCheck(k) ==
    /\ task[k].pc = "check"
    /\ mu = "free"
    /\ IF ShouldTeardown(m[k])
       THEN IF m[k].DB = 0
            THEN /\ task' = [task EXCEPT ![k].pc = "panic"]
                 /\ mu' = k
                 /\ UNCHANGED <<m, closedDB>>
            ELSE /\ task' = [task EXCEPT ![k] = AfterTeardown(@)]
                 /\ m' = [m EXCEPT ![k] = NoGroup]
                 /\ closedDB' = closedDB \cup {m[k].DB}
                 /\ mu' = mu
       ELSE /\ task' = [task EXCEPT ![k].pc = "select"]
            /\ UNCHANGED <<m, mu, closedDB>>
    /\ UNCHANGED <<rootDone, pc, mode, key, grp, ctx, db, watcher, outcome,
                   cancelCalls>>

\* A select of the loop takes <-s.Ctx.Done(): return, the Group stays in s.m.
TaskExit(k) ==
    /\ Selecting(k)
    /\ rootDone
    /\ task' = [task EXCEPT ![k].pc = "none"]
    /\ UNCHANGED <<m, mu, rootDone, pc, mode, key, grp, ctx, db, watcher,
                   outcome, cancelCalls, closedDB>>

\* The root scope s.Ctx ends.
Shutdown ==
    /\ ~rootDone
    /\ rootDone' = TRUE
    /\ UNCHANGED <<m, mu, task, pc, mode, key, grp, ctx, db, watcher,
                   outcome, cancelCalls, closedDB>>

----------------------------------------------------------------------------

CallStep(c) ==
    \/ Start(c)
    \/ CtxEnd(c)
    \/ ScopeWatcher(c)
    \/ SendCancelled(c)
    \/ RecvCancelled(c)
    \/ PrivateConnectOK(c)
    \/ PrivateConnectFail(c)
    \/ Release(c)
    \/ WatcherQuit(c)

Rendezvous(k, c) ==
    \/ AdmitRW(k, c)
    \/ AdmitRead(k, c)
    \/ OfferDB(k, c)
    \/ DoneRW(k, c)
    \/ DoneRead(k, c)

TaskStep(k) ==
    \/ ConnectOK(k)
    \/ ConnectFail(k)
    \/ IdleElapsed(k)
    \/ IdleStale(k)
    \/ ConnectRetry(k)
    \/ ConnectFailAgain(k)
    \/ ConnectAbort(k)
    \/ TeardownCheck(k)
    \/ TaskExit(k)

Next ==
    \/ \E c \in Calls : CallStep(c)
    \/ \E k \in Keys, c \in Calls : Rendezvous(k, c)
    \/ \E k \in Keys : TaskStep(k)
    \/ Shutdown

Spec == Init /\ [][Next]_vars

\* The steps the program takes by itself: every goroutine that can run is
\* scheduled, and a select with a ready case proceeds.  Issuing a call,
\* the end of a scope, a release, a failing connector and the shutdown are
\* the environment's.
Internal ==
    \/ \E c \in Calls :
        \/ ScopeWatcher(c)
        \/ SendCancelled(c)
        \/ RecvCancelled(c)
        \/ PrivateConnectOK(c)
        \/ WatcherQuit(c)
    \/ \E k \in Keys, c \in Calls : Rendezvous(k, c)
    \/ \E k \in Keys :
        \/ ConnectOK(k)
        \/ IdleElapsed(k)
        \/ IdleStale(k)
        \/ ConnectRetry(k)
        \/ ConnectAbort(k)
        \/ TeardownCheck(k)
        \/ TaskExit(k)

FairSpec == Spec /\ WF_vars(Internal)

----------------------------------------------------------------------------
(* A stream of calls: callers that call again and again *)

\* The caller of a call that returned a handle, has called cancel() and
\* whose done signal was consumed makes its next call: the process starts
\* anew.
Reissue(c) ==
    /\ pc[c] = "done"
    /\ outcome[c] = "ok"
    /\ cancelCalls[c] # "never"
    /\ watcher[c] = "sent"
    /\ pc' = [pc EXCEPT ![c] = "new"]
    /\ mode' = [mode EXCEPT ![c] = "rw"]
    /\ grp' = [grp EXCEPT ![c] = 0]
    /\ ctx' = [ctx EXCEPT ![c] = "live"]
    /\ db' = [db EXCEPT ![c] = 0]
    /\ watcher' = [watcher EXCEPT ![c] = "none"]
    /\ outcome' = [outcome EXCEPT ![c] = "none"]
    /\ cancelCalls' = [cancelCalls EXCEPT ![c] = "never"]
    /\ UNCHANGED <<m, mu, rootDone, task, key, closedDB>>

\* The callers of the stream: the first asks for exclusive access, the
\* others read.
StreamMode(c) == IF c = 1 THEN "rw" ELSE "read"

\* The calls of the stream: the scope of a call is live when the call is
\* issued and ends only by cancel().
StreamCall(c) ==
    \/ \E k \in Keys : Issue(c, k, StreamMode(c), FALSE)
    \/ Release(c)
    \/ Reissue(c)

\* The Store stays live and the connector succeeds.
StreamNext ==
    \/ \E c \in Slots : StreamCall(c)
    \/ \E k \in Keys, c \in Slots : Rendezvous(k, c)
    \/ \E k \in Keys : ConnectOK(k) \/ TeardownCheck(k)

\* Every holder calls cancel(), every goroutine that can run is scheduled,
\* and a channel operation that is ready again and again is taken (a Go
\* select picks among its ready cases at random).
StreamFair ==
    /\ \A c \in Slots : WF_vars(Release(c))
    /\ \A k \in Keys : WF_vars(ConnectOK(k)) /\ WF_vars(TeardownCheck(k))
    /\ \A k \in Keys, c \in Slots :
          /\ SF_vars(AdmitRW(k, c))
          /\ SF_vars(AdmitRead(k, c))
          /\ SF_vars(OfferDB(k, c))
          /\ SF_vars(DoneRW(k, c))
          /\ SF_vars(DoneRead(k, c))

StreamSpec == Init /\ [][StreamNext]_vars /\ StreamFair

----------------------------------------------------------------------------
(* Vocabulary of the properties *)

\* The call is inside waitGetDB, past the Group lookup.
InFlight(c) == pc[c] \in {"send", "connect", "recv"}

\* The goroutine of the call's id has admitted the call.
Admitted(c) == watcher[c] # "none"

\* Admitted, and the goroutine of its id has not consumed its done signal.
Holding(c) == watcher[c] \in {"wait", "quit"}

\* The accessor returned a handle and a nil error.
Granted(c) == pc[c] = "done" /\ outcome[c] = "ok"

\* Granted, and the caller has not called cancel().
Unreleased(c) == Granted(c) /\ cancelCalls[c] = "never"

Conflict(c, d) ==
    /\ c # d
    /\ key[c] = key[d]
    /\ mode[c] \in Exclusive \/ mode[d] \in Exclusive

ExclusiveHolders(k) ==
    {c \in Calls : Holding(c) /\ key[c] = k /\ mode[c] \in Exclusive}

ReadHolders(k) ==
    {c \in Calls : Holding(c) /\ key[c] = k /\ mode[c] = "read"}

----------------------------------------------------------------------------

\* C1: for every id, at most one admitted rw/rwseparate request has its
\* done signal outstanding, and while there is one no admitted read request
\* has; isRW and readCount > 0 are never both true.
C1_MutualExclusion ==
    \A k \in Keys :
        /\ Cardinality(ExclusiveHolders(k)) <= 1
        /\ ExclusiveHolders(k) # {} => ReadHolders(k) = {}
        /\ ~(task[k].isRW /\ task[k].readCount > 0)

\* A read holder is in place while an exclusive request of the same id
\* waits to be delivered.
C1_Witness ==
    \E c, d \in Calls :
        /\ Conflict(c, d)
        /\ Holding(c) /\ mode[c] = "read" /\ ctx[c] = "live"
        /\ pc[d] = "send" /\ mode[d] \in Exclusive /\ ctx[d] = "live"

\* The internal scope of the call was live when the call returned.
LiveAtReturn(c) == ctx[c] \in {"live", "expired"}

\* C2: from the return of a handle until its caller calls cancel(), no
\* accessor call of a conflicting mode on the same id returns a handle:
\* while the Store is live, two conflicting grants, each returned to a call
\* whose scope was live, are never both unreleased.
C2_GrantLastsUntilRelease ==
    \A c, d \in Calls :
        /\ Conflict(c, d)
        /\ ~rootDone
        /\ LiveAtReturn(c) /\ LiveAtReturn(d)
        => ~(Unreleased(c) /\ Unreleased(d))

\* C3: a call whose internal scope has ended while it is inside waitGetDB
\* without a handle does not return a handle.
C3_CancelledNeverGetsHandle ==
    [][\A c \in Calls :
          InFlight(c) /\ CtxDone(c) => ~Granted(c)']_vars

\* C4: while read holders hold an id and no exclusive request is admitted,
\* a further read request of that id whose scope is live can be delivered
\* at once, whatever the holders do; a delivered read request whose scope
\* is live can receive the handle at once; and the read holders of an id
\* that were given a handle were given the same one, the Group's.
C4_ConcurrentReaders ==
    /\ \A k \in Keys, c \in Calls :
        /\ ~rootDone
        /\ ReadHolders(k) # {} /\ ExclusiveHolders(k) = {}
        /\ pc[c] = "send" /\ mode[c] = "read" /\ key[c] = k
        /\ ctx[c] = "live"
        => ENABLED AdmitRead(k, c)
    /\ \A k \in Keys, c \in Calls :
        /\ ~rootDone
        /\ pc[c] = "recv" /\ mode[c] = "read" /\ key[c] = k
        /\ ctx[c] = "live"
        => ENABLED OfferDB(k, c)
    /\ \A c, d \in Calls :
        /\ key[c] = key[d]
        /\ mode[c] = "read" /\ mode[d] = "read"
        /\ Holding(c) /\ Holding(d)
        /\ Granted(c) /\ Granted(d)
        => db[c] = db[d] /\ db[c] = m[key[c]].DB /\ db[c] \notin closedDB

\* Two read holders hold the same id with the same handle, both scopes live.
C4_Witness ==
    \E c, d \in Calls :
        /\ c # d /\ key[c] = key[d]
        /\ mode[c] = "read" /\ mode[d] = "read"
        /\ Holding(c) /\ Holding(d)
        /\ Unreleased(c) /\ Unreleased(d)
        /\ ctx[c] = "live" /\ ctx[d] = "live"
        /\ db[c] = db[d] /\ db[c] # 0

\* Another call of the same id whose scope is live: in flight, or holding.
Contender(c) ==
    \E e \in Calls \ {c} :
        key[e] = key[c] /\ pc[e] # "new" /\ ctx[e] = "live"

\* C5: once a holder of an id has called cancel(), a call for that id
\* that is inside waitGetDB returns a handle, unless its own scope ends, the
\* Store shuts down or another call with a live scope contends for the id.
C5_ReleaseThenAcquire ==
    \A c \in Calls :
        (/\ InFlight(c)
         /\ \E d \in Calls \ {c} :
               key[d] = key[c] /\ Granted(d) /\ cancelCalls[d] # "never")
        ~> (Granted(c) \/ CtxDone(c) \/ rootDone \/ Contender(c))

\* A call returned a handle of a fresh Group after the holder of the
\* id's previous Group had released it and that Group had been destroyed.
C5_Witness ==
    \E c, d \in Calls :
        /\ Conflict(c, d)
        /\ Granted(d) /\ cancelCalls[d] # "never"
        /\ Granted(c) /\ ctx[c] = "live" /\ ~rootDone
        /\ grp[c] # grp[d] /\ db[d] \in closedDB /\ db[c] \notin closedDB

\* C6: a Group leaves the table only in a step taken with its requestCount
\* 0 and no holder (not isRW, readCount 0), which closes its handle; no
\* call of that id is then inside waitGetDB, and a call inside waitGetDB
\* always finds the Group it looked up in the table.
C6_TeardownSafe ==
    [][\A k \in Keys :
          /\ m[k].id # 0 /\ m'[k].id # m[k].id
             => /\ m[k].requestCount = 0
                /\ ~task[k].isRW /\ task[k].readCount = 0
                /\ \A c \in Calls : key[c] = k => ~InFlight(c) /\ ~Holding(c)
                /\ m[k].DB \in closedDB'
                /\ task'[k].pc = "none"
          /\ \A c \in Calls :
                InFlight(c)' /\ key'[c] = k => m'[k].id = grp'[c]]_vars

\* A Group was destroyed and a later call is inside waitGetDB with the
\* Group it created.
C6_Witness ==
    \E c \in Calls :
        /\ closedDB # {}
        /\ InFlight(c)
        /\ m[key[c]].id = c
        /\ m[key[c]].requestCount = 1

\* No call of the id is inside waitGetDB and every grant was released.
Quiescent(k) ==
    /\ \A c \in Calls : key[c] = k => ~InFlight(c)
    /\ \A c \in Calls : key[c] = k /\ Granted(c) => cancelCalls[c] # "never"

\* No accessor call ended in a nil pointer dereference.
NoPanic == \A c \in Calls : outcome[c] # "panic"

\* C7: once every call of an id has returned and every grant was released,
\* the Group is removed and its goroutine ends: with the Store live and
\* no accessor panic, the program does not come to rest with the Group
\* still in the table.
C7_NoLeakedGroup ==
    \A k \in Keys :
        ~rootDone /\ NoPanic /\ Quiescent(k) /\ ~ENABLED Internal
        => m[k].id = 0 /\ task[k].pc = "none"

\* C8: a call issued with a scope that had already ended returns an error
\* (when its accessor returns at all) and, when it returns, the table holds
\* no Group that it created.
C8_EndedScopeLeavesNothing ==
    [][\A c \in Calls :
          ctx[c] = "pre" /\ InFlight(c) /\ pc'[c] = "done" /\ NoPanic'
          => outcome'[c] = "err" /\ m'[key[c]].id # c]_vars

\* C9: whatever the number of cancel() calls, the goroutine of an id
\* counts exactly the admitted requests whose done signal it has not
\* consumed, a request gives at most one done signal, and an admitted
\* request whose own scope is live is still counted.
C9_ReleaseIdempotent ==
    /\ \A k \in Keys :
        /\ task[k].readCount = Cardinality(ReadHolders(k))
        /\ task[k].isRW <=> ExclusiveHolders(k) # {}
    /\ \A c \in Calls : Admitted(c) /\ ctx[c] = "live" => Holding(c)
    /\ \A c \in Calls : watcher[c] = "sent" => CtxDone(c)

\* A holder released twice, its done signal consumed once, while a later
\* conflicting holder with a live scope is counted.
C9_Witness ==
    \E c, d \in Calls :
        /\ Conflict(c, d)
        /\ cancelCalls[c] = "again" /\ watcher[c] = "sent"
        /\ Unreleased(d) /\ ctx[d] = "live" /\ watcher[d] = "wait"
        /\ grp[c] = grp[d]

\* C10: every accessor call that has returned returned either a usable
\* handle and a nil error, or a nil handle and a non-nil error.
C10_HandleOrError ==
    \A c \in Calls :
        pc[c] = "done"
        => \/ outcome[c] = "ok" /\ db[c] # 0
           \/ outcome[c] = "err" /\ db[c] = 0

\* The call is blocked in one of the selects of waitGetDB.
Blocked(c) == pc[c] \in {"send", "recv"}

\* C11: once the root scope has ended, a call that is blocked waiting to
\* deliver its request or waiting for the handle does not return a handle.
C11_ShutdownNeverGrants ==
    [][\A c \in Calls :
          rootDone /\ Blocked(c) => ~Granted(c)']_vars

\* The goroutine of id k is inside connectDBAndWait, after a failed attempt.
Retrying(k) == task[k].pc \in {"backoff", "attempt"}

\* C12: while the connect loop of its id keeps retrying, a call that
\* waits to deliver its request and whose scope has ended can return
\* its error.
C12_TimeoutWhileConnecting ==
    \A c \in Calls :
        pc[c] = "send" /\ CtxDone(c) /\ Retrying(key[c])
        => ENABLED SendCancelled(c)

\* C13: inside connectDBAndWait every attempt after the first starts
\* when as many full idle intervals have been waited as attempts have failed.
C13_RetrySpacing ==
    \A k \in Keys :
        task[k].pc = "attempt" => task[k].waits = task[k].fails

\* C14: an rwseparate call that returned a handle was admitted through
\* the exclusive queue and was given the handle of its own connector call,
\* never the Group's; once its caller has called cancel() and the program
\* has come to rest, that handle is closed.
C14_PrivateHandleLifecycle ==
    \A c \in Calls :
        mode[c] = "rwseparate" /\ Granted(c)
        => /\ Admitted(c)
           /\ db[c] = PrivateDB(c)
           /\ \A g \in Calls : db[c] # SharedDB(g)
           /\ cancelCalls[c] # "never" /\ ~ENABLED Internal
              => db[c] \in closedDB

\* The accessor of an admitted call returned without a handle.
FailedAfterAdmission(c) ==
    Admitted(c) /\ pc[c] = "done" /\ outcome[c] # "ok"

\* C15: an admitted call that returns without a handle stops being counted
\* as a holder (its done signal is consumed), unless the Store shuts down.
C15_FailedAcquireUnlocks ==
    \A c \in Calls :
        FailedAfterAdmission(c) ~> (~Holding(c) \/ rootDone)

\* An admitted rwseparate call returned the connector's error and is no
\* longer counted, its Group still in the table for the next call.
C15_Witness ==
    \E c \in Calls :
        /\ mode[c] = "rwseparate" /\ FailedAfterAdmission(c)
        /\ outcome[c] = "err"
        /\ watcher[c] = "sent"
        /\ ~rootDone
        /\ \E d \in Calls : d # c /\ key[d] = key[c] /\ Holding(d)

\* The call that would be issued next.
NextCall(c) == pc[c] = "new" /\ \A d \in Calls : d < c => pc[d] # "new"

\* C16: the Store mutex is not held while a connect loop is between two
\* attempts, so that the lookup of the next call is not kept waiting.
C16_MutexNotHeldWhileConnecting ==
    /\ \A k \in Keys : Retrying(k) => mu = "free"
    /\ \A c \in Calls :
          NextCall(c) /\ (\E k \in Keys : Retrying(k)) => ENABLED Start(c)

\* The calls of id k between their requestCount++ and requestCount--.
Counted(k) == {c \in Calls : InFlight(c) /\ key[c] = k}

\* C17: the requestCount of every Group in the table is the number of
\* calls of its id inside waitGetDB, those calls hold that very Group,
\* and every return decrements the count of the Group that is in the table.
C17_RequestCount ==
    /\ \A k \in Keys :
          /\ m[k].requestCount >= 0
          /\ m[k].id # 0 => m[k].requestCount = Cardinality(Counted(k))
          /\ m[k].id = 0 => Counted(k) = {}
    /\ \A c \in Calls : InFlight(c) => m[key[c]].id = grp[c]

\* Two calls of one id are inside waitGetDB, one of them admitted, and
\* the Group of the id counts both.
C17_Witness ==
    \E c, d \in Calls :
        /\ c # d /\ key[c] = key[d]
        /\ InFlight(c) /\ InFlight(d)
        /\ Admitted(c)
        /\ m[key[c]].requestCount = 2

\* C18: the handle of a Group is received only by a call that is counted
\* as a holder, and never while the goroutine is in the unused state.
C18_HandleOnlyToHolders ==
    [][\A c \in Calls :
          pc[c] = "recv" /\ Granted(c)'
          => Holding(c) /\ ~Unused(task[key[c]])]_vars

\* C20: a handle returned by an rw or read call is the handle of the one
\* successful connector call of its Group, never nil, and the goroutine
\* of an id never calls Close() on a nil handle.
C20_ConnectBeforeServe ==
    /\ \A c \in Calls :
          Granted(c) /\ mode[c] # "rwseparate"
          => db[c] # 0 /\ db[c] = SharedDB(grp[c])
    /\ \A k \in Keys : task[k].pc # "panic"

\* C19: a request whose scope is live and that waits to be delivered is
\* eventually admitted, as long as every holder calls cancel() and the
\* connector succeeds.
C19_NoStarvation ==
    \A c \in Slots :
        (pc[c] = "send" /\ ctx[c] = "live")
        ~> (Admitted(c) \/ CtxDone(c) \/ rootDone)

\* The handles of id k that rw and read calls were given.
HandedOut(k) ==
    {db[c] : c \in {d \in Calls : key[d] = k /\ mode[d] # "rwseparate"}} \ {0}

\* C21: an id without an entry in the table has no goroutine, and when the
\* goroutine of an id has just been started the entry is the new Group,
\* not yet connected, and every handle of an earlier Group of the id that
\* was handed out is closed.
C21_OneTaskPerKey ==
    \A k \in Keys :
        /\ m[k].id = 0 => task[k].pc = "none" /\ m[k].DB = 0
        /\ task[k].pc = "start"
           => /\ m[k].id # 0 /\ m[k].DB = 0
              /\ HandedOut(k) \subseteq closedDB

\* The goroutine of a second Group of an id has just been started, after
\* the first Group was destroyed and its handle, which a call had been
\* given, was closed.
C21_Witness ==
    \E k \in Keys, c \in Calls :
        /\ task[k].pc = "start"
        /\ key[c] = k /\ Granted(c) /\ grp[c] # m[k].id
        /\ db[c] \in closedDB

\* The channels of Group g of id k are closed: the teardown ran, up to
\* delete(s.m, id) or up to its panic on a nil g.DB.
ChannelsClosed(k, g) ==
    /\ g # 0
    /\ m[k].id # g \/ task[k].pc = "panic"

\* C22: once the channels of a Group are closed, no call that looked the
\* Group up is at its send on a request channel or at its receive from
\* dbCh, and no watcher started for the Group still has its done signal to
\* send: each has delivered it or has returned on the root context.
C22_NoClosedChannelUse ==
    \A c \in Calls :
        ChannelsClosed(key[c], grp[c])
        => /\ ~Blocked(c)
           /\ watcher[c] \in {"none", "sent", "quit"}

\* A Group that had admitted two calls was destroyed: the watchers of both
\* had delivered their done signals.
C22_Witness ==
    \E c, d \in Calls :
        /\ c # d
        /\ grp[c] = grp[d]
        /\ ChannelsClosed(key[c], grp[c])
        /\ watcher[c] = "sent" /\ watcher[d] = "sent"

\* The admitted requests of id k, of the modes in ms, whose watcher still
\* has its done signal to deliver.
Outstanding(k, ms) ==
    {c \in Calls : key[c] = k /\ mode[c] \in ms /\ watcher[c] = "wait"}

\* C23: while the root context is live, readCount is the number of admitted
\* read requests whose done signal is outstanding and is never negative,
\* and isRW holds exactly when the signal of one admitted rw or rwseparate
\* request is; a done signal is consumed only from a request that is counted, lowers
\* the count by that one request, and is the only one of that request; and
\* an admitted request whose context is done has its signal consumed, or
\* the root context ends.
C23_HolderAccounting ==
    /\ [](~rootDone =>
            \A k \in Keys :
                /\ task[k].readCount >= 0
                /\ task[k].readCount = Cardinality(Outstanding(k, {"read"}))
                /\ task[k].isRW <=> Cardinality(Outstanding(k, Exclusive)) = 1
                /\ ~task[k].isRW => Outstanding(k, Exclusive) = {})
    /\ [][\A c \in Calls :
            /\ watcher[c] = "sent" => watcher'[c] = "sent"
            /\ watcher[c] = "wait" /\ watcher'[c] = "sent"
               => /\ CtxDone(c)
                  /\ m[key[c]].id = grp[c]
                  /\ IF mode[c] = "read"
                     THEN /\ ~task[key[c]].isRW
                          /\ task[key[c]].readCount > 0
                          /\ task'[key[c]].readCount
                                = task[key[c]].readCount - 1
                     ELSE /\ task[key[c]].isRW
                          /\ ~task'[key[c]].isRW
                          /\ task[key[c]].readCount = 0]_vars
    /\ \A c \in Calls :
          (watcher[c] = "wait" /\ CtxDone(c)) ~> (watcher[c] = "sent" \/ rootDone)

\* With the root context live, the done signal of one of two admitted read
\* requests of a Group was consumed and the other is still counted.
C23_Witness ==
    \E c, d \in Calls :
        /\ ~rootDone
        /\ mode[c] = "read" /\ mode[d] = "read"
        /\ grp[c] = grp[d] /\ m[key[c]].id = grp[c]
        /\ watcher[c] = "sent" /\ watcher[d] = "wait"
        /\ task[key[c]].readCount = 1

====
